---------------------------- MODULE Spec2Model ----------------------------
(***************************************************************************)
(* Model of the Telegram bot of src/main.rs: the command handler `answer`, *)
(* the four upstream fetch functions and the string conversions they use.  *)
(*                                                                         *)
(* Text is a sequence of fragments.  Text that comes from outside (a       *)
(* command argument, an upstream payload) is given one character per       *)
(* fragment, so that the conversions of the code (to_lowercase,            *)
(* split_whitespace, Url::from_str) are computed character by character.   *)
(* Literal text of the program is kept as one fragment per literal.        *)
(***************************************************************************)
EXTENDS Integers, Sequences, FiniteSets, TLC

VARIABLES
    pc,        \* where each invocation of `answer` stands
    command,   \* the `command` argument of the invocation
    message,   \* the `message` argument of the invocation
    fetches,   \* the upstream URLs the invocation has requested, in order
    upstream,  \* what the HTTP request and the JSON decoding produced
    resp,      \* what the fetch function returned to `answer`
    sends,     \* the Telegram sends the invocation has attempted, in order
    log,       \* the tracing events the invocation has emitted, in order
    result     \* how the invocation ended

vars == <<pc, command, message, fetches, upstream, resp, sends, log, result>>

(***************************************************************************)
(* Bounds of the model.                                                    *)
(***************************************************************************)
\* Longest breed argument (in characters) given to a single handler.
MaxLen == 5
\* Number of handler invocations that run interleaved.
NTasks == 2

Tasks == 1..NTasks

(***************************************************************************)
(* Option<T>: None is <<>>, Some(v) is <<v>>.                              *)
(***************************************************************************)
None == <<>>
Some(v) == <<v>>
IsSome(o) == Len(o) = 1
Unwrap(o) == o[1]

(***************************************************************************)
(* Characters.                                                             *)
(***************************************************************************)
UpperCase == <<"A","B","C","D","E","F","G","H","I","J","K","L","M",
               "N","O","P","Q","R","S","T","U","V","W","X","Y","Z">>
LowerCase == <<"a","b","c","d","e","f","g","h","i","j","k","l","m",
               "n","o","p","q","r","s","t","u","v","w","x","y","z">>
Digits == <<"0","1","2","3","4","5","6","7","8","9">>

Range(f) == {f[i] : i \in DOMAIN f}

\* char::to_lowercase on the characters of the model (ASCII).
ToLowerChar(c) ==
    IF \E i \in DOMAIN UpperCase : UpperCase[i] = c
    THEN LowerCase[CHOOSE i \in DOMAIN UpperCase : UpperCase[i] = c]
    ELSE c

\* char::is_whitespace, as split_whitespace uses it: the Unicode White_Space
\* characters.  A character that cannot be written in a string of this
\* module is named by its code point ("U+00A0").
IsWhitespace(c) ==
    c \in {" ", "\t", "\n", "\r", "\f", "U+000B", "U+0085", "U+00A0", "U+1680",
           "U+2000", "U+2001", "U+2002", "U+2003", "U+2004", "U+2005", "U+2006",
           "U+2007", "U+2008", "U+2009", "U+200A", "U+2028", "U+2029", "U+202F",
           "U+205F", "U+3000"}

IsAlpha(c) == c \in Range(UpperCase) \cup Range(LowerCase)
IsDigit(c) == c \in Range(Digits)

\* The decimal digits of n >= 0.
RECURSIVE DecimalDigits(_)
DecimalDigits(n) ==
    IF n < 10 THEN <<Digits[n + 1]>>
    ELSE DecimalDigits(n \div 10) \o <<Digits[(n % 10) + 1]>>

(***************************************************************************)
(* get_random_dog_from_breed, lines 36-41: the breed-name normalizer.      *)
(***************************************************************************)
\* str::to_lowercase
to_lowercase(s) == [i \in 1..Len(s) |-> ToLowerChar(s[i])]

\* str::split_whitespace: the maximal runs of non-whitespace characters,
\* scanned left to right; `cur` is the word being read.
RECURSIVE SplitFrom(_, _, _)
SplitFrom(s, i, cur) ==
    IF i > Len(s)
    THEN IF cur = <<>> THEN <<>> ELSE <<cur>>
    ELSE IF IsWhitespace(s[i])
         THEN IF cur = <<>>
              THEN SplitFrom(s, i + 1, <<>>)
              ELSE <<cur>> \o SplitFrom(s, i + 1, <<>>)
         ELSE SplitFrom(s, i + 1, Append(cur, s[i]))

split_whitespace(s) == SplitFrom(s, 1, <<>>)

\* Iterator::rev
rev(ws) == [i \in 1..Len(ws) |-> ws[Len(ws) + 1 - i]]

\* [&str]::join(sep)
RECURSIVE join(_, _)
join(ws, sep) ==
    IF Len(ws) = 0 THEN <<>>
    ELSE IF Len(ws) = 1 THEN ws[1]
    ELSE ws[1] \o sep \o join(Tail(ws), sep)

\* A normalizer that forgets `.rev()`.
NormalizeNoRev(breed) == join(split_whitespace(to_lowercase(breed)), <<"/">>)

\* let breed = breed.to_lowercase();
\* let breed = breed.split_whitespace().rev().collect::<Vec<&str>>().join("/");
NormalizeBreed(breed) ==
    join(rev(split_whitespace(to_lowercase(breed))), <<"/">>)

(***************************************************************************)
(* The URLs the fetch functions request.                                   *)
(***************************************************************************)
RandomDogUrl == <<"https://dog.ceo/api/breeds/image/random">>
BreedsListUrl == <<"https://dog.ceo/api/breeds/list/all">>
EuroUrl ==
    <<"https://api.coingecko.com/api/v3/simple/price?ids=tether-eurt&vs_currencies=usd">>
BreedUrlPrefix == <<"https://dog.ceo/api/breed/">>
BreedUrlSuffix == <<"/images/random">>

\* format!("https://dog.ceo/api/breed/{}/images/random", breed)
BreedUrl(breed) == BreedUrlPrefix \o NormalizeBreed(breed) \o BreedUrlSuffix

(***************************************************************************)
(* Url::from_str (url crate, no base URL) as `answer` calls it on the      *)
(* upstream payload, and the serialization InputFile::url sends.  The      *)
(* result is Some(serialization) or None for a parse error.                *)
(*                                                                         *)
(* Modelled for payloads made of ASCII letters and digits, '/', '.', '-',  *)
(* '+', '_', '~', ' ', the C0 controls of the model and at most one ':'    *)
(* (so no port, no Windows drive letter), without '%', '?', '#', '@',      *)
(* '\', without a host label that starts with "xn--" (punycode is not      *)
(* decoded here), without an IPv4 number of more than 9 digits, and, for   *)
(* file URLs, with at most three slashes after "file:".                    *)
(*   1. Leading and trailing C0 controls and spaces are stripped; tabs and *)
(*      newlines are removed everywhere.                                   *)
(*   2. The scheme is a letter followed by letters, digits, '+', '-', '.'  *)
(*      up to the first ':'; without one the input is a relative URL and   *)
(*      parsing fails (RelativeUrlWithoutBase).  It is lowercased.         *)
(*   3. http, https, ws, wss, ftp: the slashes after ':' are skipped; the  *)
(*      host runs to the next '/', must be non-empty (EmptyHost), is       *)
(*      lowercased, must hold no forbidden domain character, and is read   *)
(*      as an IPv4 address when its last label is a number; an empty path  *)
(*      becomes "/".                                                       *)
(*   4. file: "file://host/path" has a host ("localhost" is dropped);      *)
(*      otherwise the rest is the path, made absolute.                     *)
(*   5. Any other scheme: "//" starts an opaque host (kept as written, no  *)
(*      forbidden host character), "/" starts a path, anything else is an  *)
(*      opaque path.                                                       *)
(*   6. In a path, "." and ".." segments are resolved and spaces and       *)
(*      controls are percent-encoded.                                      *)
(***************************************************************************)
IsC0ControlOrSpace(c) == c \in {" ", "\t", "\n", "\r", "\f", "U+000B"}
IsTabOrNewline(c) == c \in {"\t", "\n", "\r"}
IsSchemeChar(c) == IsAlpha(c) \/ IsDigit(c) \/ c \in {"+", "-", "."}
\* The forbidden host code points, and the forbidden domain code points.
IsForbiddenHostChar(c) ==
    c \in {" ", "\t", "\n", "\r", "#", "/", ":", "<", ">", "?", "@", "[", "\\", "]", "^", "|"}
IsForbiddenDomainChar(c) == IsForbiddenHostChar(c) \/ c \in {"\f", "U+000B", "%"}

SpecialSchemes ==
    {<<"h","t","t","p">>, <<"h","t","t","p","s">>, <<"w","s">>, <<"w","s","s">>,
     <<"f","t","p">>}
FileScheme == <<"f","i","l","e">>

SubSeqFrom(s, i) == SubSeq(s, i, Len(s))

RECURSIVE TrimStart(_)
TrimStart(s) ==
    IF Len(s) > 0 /\ IsC0ControlOrSpace(s[1]) THEN TrimStart(Tail(s)) ELSE s

RECURSIVE TrimEnd(_)
TrimEnd(s) ==
    IF Len(s) > 0 /\ IsC0ControlOrSpace(s[Len(s)])
    THEN TrimEnd(SubSeq(s, 1, Len(s) - 1)) ELSE s

RECURSIVE WithoutTabOrNewline(_)
WithoutTabOrNewline(s) ==
    IF Len(s) = 0 THEN <<>>
    ELSE (IF IsTabOrNewline(s[1]) THEN <<>> ELSE <<s[1]>>) \o WithoutTabOrNewline(Tail(s))

\* The characters the parser reads.
CleanInput(s) == WithoutTabOrNewline(TrimEnd(TrimStart(s)))

\* Index of the ':' that ends the scheme, or 0 when the input has no scheme.
SchemeEnd(s) ==
    IF Len(s) = 0 \/ ~IsAlpha(s[1]) THEN 0
    ELSE LET stops == {i \in 1..Len(s) : ~IsSchemeChar(s[i])}
         IN  IF stops = {} THEN 0
             ELSE LET k == CHOOSE i \in stops : \A j \in stops : i <= j
                  IN  IF s[k] = ":" THEN k ELSE 0

\* Number of leading '/' of s.
RECURSIVE LeadingSlashes(_)
LeadingSlashes(s) ==
    IF Len(s) > 0 /\ s[1] = "/" THEN 1 + LeadingSlashes(Tail(s)) ELSE 0

\* Length of the prefix of s before its first '/'.
RECURSIVE HostLen(_)
HostLen(s) ==
    IF Len(s) = 0 \/ s[1] = "/" THEN 0 ELSE 1 + HostLen(Tail(s))

\* The pieces of s between the occurrences of sep (empty pieces included).
RECURSIVE SplitOn(_, _)
SplitOn(s, sep) ==
    LET at == {i \in 1..Len(s) : s[i] = sep}
    IN  IF at = {} THEN <<s>>
        ELSE LET n == CHOOSE i \in at : \A j \in at : i <= j
             IN  <<SubSeq(s, 1, n - 1)>> \o SplitOn(SubSeqFrom(s, n + 1), sep)

\* Percent-encoding in a path, and in an opaque host or path.
PathEncodeChar(c) ==
    CASE c = " "      -> <<"%", "2", "0">>
      [] c = "\f"     -> <<"%", "0", "C">>
      [] c = "U+000B" -> <<"%", "0", "B">>
      [] OTHER        -> <<c>>
OpaqueEncodeChar(c) ==
    CASE c = "\f"     -> <<"%", "0", "C">>
      [] c = "U+000B" -> <<"%", "0", "B">>
      [] OTHER        -> <<c>>

RECURSIVE EncodePath(_)
EncodePath(s) ==
    IF Len(s) = 0 THEN <<>> ELSE PathEncodeChar(s[1]) \o EncodePath(Tail(s))

RECURSIVE EncodeOpaque(_)
EncodeOpaque(s) ==
    IF Len(s) = 0 THEN <<>> ELSE OpaqueEncodeChar(s[1]) \o EncodeOpaque(Tail(s))

\* The segments of a path with "." and ".." resolved; `stack` is the path
\* built so far.
RECURSIVE PathSegments(_, _, _)
PathSegments(segs, i, stack) ==
    IF i > Len(segs) THEN stack
    ELSE LET seg    == segs[i]
             last   == i = Len(segs)
             popped == IF stack = <<>> THEN <<>> ELSE SubSeq(stack, 1, Len(stack) - 1)
             next   == IF seg = <<".", ".">>
                       THEN (IF last THEN Append(popped, <<>>) ELSE popped)
                       ELSE IF seg = <<".">>
                            THEN (IF last THEN Append(stack, <<>>) ELSE stack)
                            ELSE Append(stack, seg)
         IN  PathSegments(segs, i + 1, next)

\* The segments of path p, which starts with '/'.
ParsePath(p) == PathSegments(SplitOn(Tail(p), "/"), 1, <<>>)

RECURSIVE SerializePath(_)
SerializePath(segs) ==
    IF Len(segs) = 0 THEN <<>>
    ELSE <<"/">> \o EncodePath(segs[1]) \o SerializePath(Tail(segs))

\* The path of a special URL: never empty.
SpecialPath(p) == IF p = <<>> THEN <<"/">> ELSE SerializePath(ParsePath(p))

\* An IPv4 number: decimal, octal after "0", hexadecimal after "0x".  The
\* value is kept as four bytes (most significant first) and an overflow flag.
HexDigits == Digits \o <<"a", "b", "c", "d", "e", "f">>
HexValue(c) == (CHOOSE i \in DOMAIN HexDigits : HexDigits[i] = c) - 1
IsDigitOfRadix(c, R) == c \in Range(HexDigits) /\ HexValue(c) < R

MulAdd(acc, R, d) ==
    LET x4 == acc.b[4] * R + d
        x3 == acc.b[3] * R + (x4 \div 256)
        x2 == acc.b[2] * R + (x3 \div 256)
        x1 == acc.b[1] * R + (x2 \div 256)
    IN  [b |-> <<x1 % 256, x2 % 256, x3 % 256, x4 % 256>>,
         over |-> acc.over \/ (x1 \div 256) > 0]

RECURSIVE Accumulate(_, _, _)
Accumulate(ds, R, acc) ==
    IF Len(ds) = 0 THEN acc
    ELSE Accumulate(Tail(ds), R, MulAdd(acc, R, HexValue(ds[1])))

ParseIpv4Number(s) ==
    LET hex    == Len(s) >= 2 /\ s[1] = "0" /\ s[2] \in {"x", "X"}
        oct    == ~hex /\ Len(s) >= 2 /\ s[1] = "0"
        R      == IF hex THEN 16 ELSE IF oct THEN 8 ELSE 10
        digits == IF hex THEN SubSeqFrom(s, 3) ELSE IF oct THEN Tail(s) ELSE s
        zero   == [b |-> <<0, 0, 0, 0>>, over |-> FALSE]
    IN  IF s = <<>> \/ \E i \in DOMAIN digits : ~IsDigitOfRadix(digits[i], R)
        THEN [ok |-> FALSE, b |-> zero.b, over |-> FALSE]
        ELSE LET v == Accumulate(digits, R, zero)
             IN  [ok |-> TRUE, b |-> v.b, over |-> v.over]

\* The labels of a host, without one trailing empty label.
Ipv4Parts(host) ==
    LET parts == SplitOn(host, ".")
    IN  IF Len(parts) > 1 /\ parts[Len(parts)] = <<>>
        THEN SubSeq(parts, 1, Len(parts) - 1) ELSE parts

EndsInANumber(host) ==
    LET parts == Ipv4Parts(host)
        last  == parts[Len(parts)]
    IN  \/ last # <<>> /\ \A i \in DOMAIN last : IsDigit(last[i])
        \/ ParseIpv4Number(last).ok

\* The dotted-decimal IPv4 address host stands for, or None.
ParseIpv4(host) ==
    LET parts == Ipv4Parts(host)
        n     == Len(parts)
        nums  == [i \in 1..n |-> ParseIpv4Number(parts[i])]
    IN  IF n > 4 \/ \E i \in 1..n : ~nums[i].ok \/ nums[i].over THEN None
        ELSE IF \E i \in 1..(n - 1) : \E j \in 1..3 : nums[i].b[j] # 0 THEN None
        ELSE IF \E j \in 1..(n - 1) : nums[n].b[j] # 0 THEN None
        ELSE LET byte(i) == IF i < n THEN nums[i].b[4] ELSE nums[n].b[i]
             IN  Some(DecimalDigits(byte(1)) \o <<".">> \o DecimalDigits(byte(2)) \o <<".">>
                      \o DecimalDigits(byte(3)) \o <<".">> \o DecimalDigits(byte(4)))

\* Host::parse on a non-empty host of a special URL.
ParseDomain(host) ==
    LET domain == to_lowercase(host)
    IN  IF \E i \in DOMAIN domain : IsForbiddenDomainChar(domain[i]) THEN None
        ELSE IF EndsInANumber(domain) THEN ParseIpv4(domain)
        ELSE Some(domain)

\* Host::parse_opaque on the host of a non-special URL.
\* A host of one character is kept as written even when that character is a
\* control: its encoding is a single piece, which parse_opaque takes for
\* "nothing to encode".
ParseOpaqueHost(host) ==
    IF \E i \in DOMAIN host : IsForbiddenHostChar(host[i]) THEN None
    ELSE IF Len(host) = 1 THEN Some(host)
    ELSE Some(EncodeOpaque(host))

\* The segments of a file path without the empty segments that start it.
RECURSIVE TrimStartSegments(_)
TrimStartSegments(segs) ==
    IF Len(segs) > 1 /\ segs[1] = <<>> THEN TrimStartSegments(Tail(segs)) ELSE segs

\* The path of a file URL: never empty, and "//x" is "/x".
FilePath(p) ==
    IF p = <<>> THEN <<"/">> ELSE SerializePath(TrimStartSegments(ParsePath(p)))

\* After "file:".
ParseFile(rest) ==
    IF LeadingSlashes(rest) >= 2
    THEN LET auth == SubSeqFrom(rest, 3)
             host == SubSeq(auth, 1, HostLen(auth))
             path == SubSeqFrom(auth, HostLen(auth) + 1)
             h    == IF host = <<>> THEN Some(<<>>) ELSE ParseDomain(host)
         IN  IF ~IsSome(h) THEN None
             ELSE Some(FileScheme \o <<":", "/", "/">>
                       \o (IF Unwrap(h) = <<"l","o","c","a","l","h","o","s","t">>
                           THEN <<>> ELSE Unwrap(h))
                       \o FilePath(path))
    ELSE Some(FileScheme \o <<":", "/", "/">>
              \o FilePath(IF LeadingSlashes(rest) = 1 THEN rest ELSE <<"/">> \o rest))

\* After the scheme of http, https, ws, wss or ftp.
ParseSpecial(scheme, rest) ==
    LET auth == SubSeqFrom(rest, LeadingSlashes(rest) + 1)
        host == SubSeq(auth, 1, HostLen(auth))
        path == SubSeqFrom(auth, HostLen(auth) + 1)
        h    == IF host = <<>> THEN None ELSE ParseDomain(host)
    IN  IF ~IsSome(h) THEN None
        ELSE Some(scheme \o <<":", "/", "/">> \o Unwrap(h) \o SpecialPath(path))

\* After any other scheme.
ParseNonSpecial(scheme, rest) ==
    IF LeadingSlashes(rest) >= 2
    THEN LET auth == SubSeqFrom(rest, 3)
             host == SubSeq(auth, 1, HostLen(auth))
             path == SubSeqFrom(auth, HostLen(auth) + 1)
             h    == ParseOpaqueHost(host)
         IN  IF ~IsSome(h) THEN None
             ELSE Some(scheme \o <<":", "/", "/">> \o Unwrap(h)
                       \o (IF path = <<>> THEN <<>> ELSE SerializePath(ParsePath(path))))
    ELSE IF LeadingSlashes(rest) = 1
    THEN LET segs == ParsePath(rest)
         IN  Some(scheme \o <<":">>
                  \o (IF Len(segs) > 1 /\ segs[1] = <<>> THEN <<"/", ".">> ELSE <<>>)
                  \o SerializePath(segs))
    ELSE Some(scheme \o <<":">> \o EncodeOpaque(rest))

Url_from_str(input) ==
    LET s == CleanInput(input)
        k == SchemeEnd(s)
    IN  IF k = 0 THEN None
        ELSE LET scheme == to_lowercase(SubSeq(s, 1, k - 1))
                 rest   == SubSeqFrom(s, k + 1)
             IN  IF scheme = FileScheme THEN ParseFile(rest)
                 ELSE IF scheme \in SpecialSchemes THEN ParseSpecial(scheme, rest)
                 ELSE ParseNonSpecial(scheme, rest)

(***************************************************************************)
(* Values of the program.                                                  *)
(***************************************************************************)
\* enum Command, lines 67-79.
Cmd(name, arg) == [name |-> name, arg |-> arg]
Doggo == Cmd("Doggo", <<>>)
Breed(arg) == Cmd("Breed", arg)
Breeds == Cmd("Breeds", <<>>)
Euro == Cmd("Euro", <<>>)
NoCommand == Cmd("None", <<>>)

\* teloxide Message: the chat it was posted in and its optional sender.
Msg(chat, from) == [chat |-> chat, from |-> from]
NoMessage == Msg(0, None)

\* Result<T, reqwest::Error>
Err == [kind |-> "Err", body |-> <<>>]
Ok(v) == [kind |-> "Ok", body |-> v]
NoResp == [kind |-> "None", body |-> <<>>]
IsOk(r) == r.kind = "Ok"
IsErr(r) == r.kind = "Err"

\* struct DogResponse<T>, lines 10-13.
DogResponse(msg, status) == [message |-> msg, status |-> status]

\* The f32 read from a JSON number with two fraction digits: its sign and the
\* hundredths of its magnitude (|h| < 2^31).  "-0.00" is F32(TRUE, 0), the
\* negative zero, which is not the zero F32(FALSE, 0) of "0.00".
F32(neg, mag) == [neg |-> neg, mag |-> mag]

\* struct GoingeckoCoinValue, lines 16-18; usd is an f32.
GoingeckoCoinValue(usd) == [usd |-> usd]

\* HashMap::get
get(map, key) == IF key \in DOMAIN map THEN Some(map[key]) ELSE None

EmptyMap == [k \in {} |-> <<>>]

(***************************************************************************)
(* The fetch functions, applied to what the HTTP request and the JSON      *)
(* decoding produced (`?` passes an error on).                             *)
(***************************************************************************)
\* lines 20-25
get_random_dog(http) == http

\* lines 28-33
get_list_of_breeds(http) == http

\* lines 35-46 (the request URL is BreedUrl)
get_random_dog_from_breed(http) == http

\* A price extraction that reports a missing key as an error.
GetEuroUsdMissingIsErr(http) ==
    IF IsErr(http) THEN Err
    ELSE LET euro == get(http.body, "tether-eurt")
         IN  IF IsSome(euro) THEN Ok(Some(Unwrap(euro).usd)) ELSE Err

\* lines 48-63
get_euro_usd(http) ==
    IF IsErr(http) THEN Err
    ELSE LET euro == get(http.body, "tether-eurt")
         IN  IF IsSome(euro) THEN Ok(Some(Unwrap(euro).usd)) ELSE Ok(None)

(***************************************************************************)
(* Formatting.                                                             *)
(***************************************************************************)
\* Display of an f32.  The price arrives as a decimal with two fraction
\* digits, given here as a sign and hundredths below 2^31; the program holds the
\* nearest f32 (ties to even) and prints the shortest decimal that reads back
\* as that f32, the closest one when several are as short, the upper one on a
\* tie.  So 1.00 is "1", 1.50 is "1.5", 1.07 is "1.07", -1.07 is "-1.07",
\* 1000000.01 is "1000000" and -0.00 is "-0".
RECURSIVE Pow2(_)
Pow2(n) == IF n = 0 THEN 1 ELSE 2 * Pow2(n - 1)

\* a / b rounded to the nearest integer, ties to even.
RoundHalfEven(a, b) ==
    LET q == a \div b
        r == a % b
    IN  IF 2 * r < b THEN q
        ELSE IF 2 * r > b THEN q + 1
        ELSE q + (q % 2)

\* The decimal of a / 100 without trailing zeros.
ExactDecimal(a) ==
    DecimalDigits(a \div 100) \o
    (IF a % 100 = 0 THEN <<>>
     ELSE IF a % 10 = 0 THEN <<".", Digits[((a % 100) \div 10) + 1]>>
     ELSE <<".", Digits[((a % 100) \div 10) + 1], Digits[(a % 10) + 1]>>)

\* The multiple k of 1/P that prints the f32 m / S, or -1 when none lies in
\* the rounding interval of m / S (closed when m is even).
ShortestWith(m, S, P) ==
    LET k0   == (P * m) \div S
        r    == (P * m) % S
        down == IF m % 2 = 0 THEN 2 * r <= P ELSE 2 * r < P
        up   == IF m % 2 = 0 THEN 2 * (S - r) <= P ELSE 2 * (S - r) < P
    IN  IF up /\ (~down \/ 2 * r >= S) THEN k0 + 1
        ELSE IF down THEN k0
        ELSE -1

\* a >= 0.  Below 2^17 the f32 are closer than 0.01 to each other, so the
\* decimal itself is the shortest that reads back.
DisplayMagnitude(a) ==
    IF a \div 100 < Pow2(17) THEN ExactDecimal(a)
    ELSE LET e == CHOOSE x \in 17..24 : Pow2(x) <= a \div 100 /\ a \div 100 < Pow2(x + 1)
         IN  IF e = 24 THEN DecimalDigits(2 * RoundHalfEven(a, 200))
             ELSE LET S == Pow2(23 - e)
                      m == RoundHalfEven(a * S, 100)
                  IN  IF m % S = 0 THEN DecimalDigits(m \div S)
                      ELSE IF ShortestWith(m, S, 10) >= 0
                           THEN ExactDecimal(10 * ShortestWith(m, S, 10))
                           ELSE ExactDecimal(ShortestWith(m, S, 100))

DisplayF32(f) ==
    IF f.neg THEN <<"-">> \o DisplayMagnitude(f.mag) ELSE DisplayMagnitude(f.mag)

\* format!("${}", euro), line 157
EuroText(euro) == <<"$">> \o DisplayF32(euro)

\* A reply that quotes the normalized breed.
NotFoundTextNormalized(breed) ==
    <<"Breed '">> \o NormalizeBreed(breed) \o <<"' doesn't exist">>

\* format!("Breed '{}' doesn't exist", breed), line 184
NotFoundText(breed) == <<"Breed '">> \o breed \o <<"' doesn't exist">>

\* The header fragment of line 112 is "-" U+2502 " ".
BreedHeader == "-[U+2502] "
VariantHeader == "     |> "

RECURSIVE VariantLines(_)
VariantLines(vs) ==
    IF Len(vs) = 0 THEN <<>>
    ELSE <<VariantHeader, vs[1], "\n">> \o VariantLines(Tail(vs))

\* Lines 109-116: the listing, for the order `keys` in which the HashMap
\* iterates.
RECURSIVE BreedsText(_, _)
BreedsText(breeds, keys) ==
    IF Len(keys) = 0 THEN <<>>
    ELSE <<BreedHeader, keys[1], "\n">> \o VariantLines(breeds[keys[1]])
         \o BreedsText(breeds, Tail(keys))

\* The orders in which a HashMap with key set S may iterate.
IterationOrders(S) ==
    {o \in [1..Cardinality(S) -> S] : \A i, j \in DOMAIN o : o[i] = o[j] => i = j}

(***************************************************************************)
(* Tracing events (the subscriber is a sink `answer` never reads).         *)
(***************************************************************************)
Info(text) == [level |-> "INFO", text |-> text]
Error(text) == [level |-> "ERROR", text |-> text]

SendFailedEvent == Error(<<"Error while sending message ">>)
SentEvent == Info(<<"Dog sent with success">>)
NoDogEvent == Error(<<"Could not find a dog">>)
NoBreedsEvent == Error(<<"Could not get the list of breeds">>)
NoEuroEvent == Error(<<"Could not fetch the value of Euro -> ">>)

\* The event `answer` emits before its fetch (lines 103, 132, 169; the Euro
\* arm emits none).
FetchingEvents(c) ==
    CASE c.name = "Breeds" -> <<Info(<<"Fetching a the list of dogs...">>)>>
      [] c.name = "Doggo"  -> <<Info(<<"Fetching a random dog...">>)>>
      [] c.name = "Breed"  ->
            <<Info(<<"Fetching a random dog of breed ">> \o c.arg \o <<"...">>)>>
      [] OTHER             -> <<>>

\* The URL the arm's fetch function requests.
FetchUrl(c) ==
    CASE c.name = "Breeds" -> BreedsListUrl
      [] c.name = "Doggo"  -> RandomDogUrl
      [] c.name = "Breed"  -> BreedUrl(c.arg)
      [] OTHER             -> EuroUrl

(***************************************************************************)
(* Telegram requests: bot.send_photo(chat, InputFile::url(url)) and        *)
(* bot.send_message(chat, text).  `outcome` is "pending" until the await   *)
(* returns, then "ok" or "err".                                            *)
(***************************************************************************)
SendPhoto(to, url) == [kind |-> "photo", to |-> to, body |-> url, outcome |-> "pending"]
SendMessage(to, text) == [kind |-> "text", to |-> to, body |-> text, outcome |-> "pending"]

(***************************************************************************)
(* What `answer` does between two awaits: the events it emits, the send it *)
(* issues (if any), and where it stands next.                              *)
(***************************************************************************)
\* The arm ends and `answer` returns Ok(()) (line 194).
Finish(events) == [pc |-> "done", log |-> events, send |-> None, result |-> "Ok"]
\* An unwrap() on None or Err: the invocation unwinds and returns nothing.
\* The unwinding is taken to end this invocation only.
Panic == [pc |-> "done", log |-> <<>>, send |-> None, result |-> "panic"]
\* The arm issues a send and awaits it at `at`.
Await(at, events, send) == [pc |-> at, log |-> events, send |-> Some(send), result |-> "pending"]

\* A status test that accepts every response.
IsSuccessAlways(r) == TRUE

\* `dog.status == "success"`, lines 108, 137, 174
IsSuccess(r) == r.status = "success"

\* A handler that answers in the chat of the first invocation.
IncomingFirst(t) == message[1]

\* The `message` argument of invocation t (line 98).
Incoming(t) == message[t]

\* Command::Breeds after the fetch, lines 107-129.
BreedsArm(t, breeds, keys) ==
    IF IsOk(breeds)
    THEN IF IsSuccess(breeds.body)
         THEN LET msg == BreedsText(breeds.body.message, keys)
                  from == Incoming(t).from
              IN  IF IsSome(from)
                  THEN Await("send", <<>>, SendMessage(Unwrap(from), msg))
                  ELSE Panic
         ELSE Finish(<<NoBreedsEvent>>)
    ELSE Finish(<<NoBreedsEvent>>)

\* Command::Doggo after the fetch, lines 136-150.
DoggoArm(t, dog) ==
    IF IsOk(dog)
    THEN IF IsSuccess(dog.body)
         THEN LET url == Url_from_str(dog.body.message)
              IN  IF IsSome(url)
                  THEN Await("send", <<>>, SendPhoto(Incoming(t).chat, Unwrap(url)))
                  ELSE Panic
         ELSE Finish(<<NoDogEvent>>)
    ELSE Finish(<<NoDogEvent>>)

\* Command::Euro after the fetch, lines 155-166.
EuroArm(t, euro) ==
    IF IsOk(euro) /\ IsSome(euro.body)
    THEN Await("send", <<>>, SendMessage(Incoming(t).chat, EuroText(Unwrap(euro.body))))
    ELSE IF IsErr(euro)
         THEN Finish(<<NoEuroEvent>>)
         ELSE Finish(<<>>)

\* Command::Breed after the fetch, lines 173-190.
BreedArm(t, breed, dog) ==
    IF IsOk(dog)
    THEN IF IsSuccess(dog.body)
         THEN LET url == Url_from_str(dog.body.message)
              IN  IF IsSome(url)
                  THEN Await("send", <<>>, SendPhoto(Incoming(t).chat, Unwrap(url)))
                  ELSE Panic
         ELSE Await("send_not_found", <<NoDogEvent>>,
                    SendMessage(Incoming(t).chat, NotFoundText(breed)))
    ELSE Finish(<<NoDogEvent>>)

\* After a send whose result is inspected, lines 119-123, 140-144, 159-163,
\* 177-181.
AfterSend(outcome) ==
    IF outcome = "err" THEN Finish(<<SendFailedEvent>>) ELSE Finish(<<SentEvent>>)

\* After the send of line 184, whose result `.ok()` drops.
AfterNotFoundSend(outcome) == Finish(<<>>)

(***************************************************************************)
(* The state machine.                                                      *)
(***************************************************************************)
Init ==
    /\ pc = [t \in Tasks |-> "idle"]
    /\ command = [t \in Tasks |-> NoCommand]
    /\ message = [t \in Tasks |-> NoMessage]
    /\ fetches = [t \in Tasks |-> <<>>]
    /\ upstream = [t \in Tasks |-> NoResp]
    /\ resp = [t \in Tasks |-> NoResp]
    /\ sends = [t \in Tasks |-> <<>>]
    /\ log = [t \in Tasks |-> <<>>]
    /\ result = [t \in Tasks |-> "pending"]

\* Invocation t moves on as `step` says.
Proceed(t, step) ==
    /\ pc' = [pc EXCEPT ![t] = step.pc]
    /\ log' = [log EXCEPT ![t] = @ \o step.log]
    /\ sends' = [sends EXCEPT ![t] = @ \o step.send]
    /\ result' = [result EXCEPT ![t] = step.result]

\* commands_repl calls answer(bot, m, c) (line 93); the arm runs to the await
\* of its fetch function.
Receive(t, c, m) ==
    /\ pc[t] = "idle"
    /\ command' = [command EXCEPT ![t] = c]
    /\ message' = [message EXCEPT ![t] = m]
    /\ fetches' = [fetches EXCEPT ![t] = Append(@, FetchUrl(c))]
    /\ pc' = [pc EXCEPT ![t] = "fetch"]
    /\ log' = [log EXCEPT ![t] = @ \o FetchingEvents(c)]
    /\ UNCHANGED <<upstream, resp, sends, result>>

\* get_list_of_breeds().await returns; the HashMap iterates in some order
\* `keys` of its keys.
BreedsFetched(t, http) ==
    /\ pc[t] = "fetch"
    /\ command[t].name = "Breeds"
    /\ upstream' = [upstream EXCEPT ![t] = http]
    /\ resp' = [resp EXCEPT ![t] = get_list_of_breeds(http)]
    /\ \E keys \in (IF IsOk(http) THEN IterationOrders(DOMAIN http.body.message)
                                  ELSE {<<>>}) :
          Proceed(t, BreedsArm(t, resp'[t], keys))
    /\ UNCHANGED <<command, message, fetches>>

\* get_random_dog().await returns.
DoggoFetched(t, http) ==
    /\ pc[t] = "fetch"
    /\ command[t].name = "Doggo"
    /\ upstream' = [upstream EXCEPT ![t] = http]
    /\ resp' = [resp EXCEPT ![t] = get_random_dog(http)]
    /\ Proceed(t, DoggoArm(t, resp'[t]))
    /\ UNCHANGED <<command, message, fetches>>

\* get_euro_usd().await returns.
EuroFetched(t, http) ==
    /\ pc[t] = "fetch"
    /\ command[t].name = "Euro"
    /\ upstream' = [upstream EXCEPT ![t] = http]
    /\ resp' = [resp EXCEPT ![t] = get_euro_usd(http)]
    /\ Proceed(t, EuroArm(t, resp'[t]))
    /\ UNCHANGED <<command, message, fetches>>

\* get_random_dog_from_breed(&breed).await returns.
BreedFetched(t, http) ==
    /\ pc[t] = "fetch"
    /\ command[t].name = "Breed"
    /\ upstream' = [upstream EXCEPT ![t] = http]
    /\ resp' = [resp EXCEPT ![t] = get_random_dog_from_breed(http)]
    /\ Proceed(t, BreedArm(t, command[t].arg, resp'[t]))
    /\ UNCHANGED <<command, message, fetches>>

\* The last send of invocation t, with its outcome filled in.
Settle(ss, outcome) == [ss EXCEPT ![Len(ss)].outcome = outcome]

\* bot.send_message / bot.send_photo returns at lines 118, 139, 158, 176.
SendCompleted(t, outcome) ==
    /\ pc[t] = "send"
    /\ LET step == AfterSend(outcome)
       IN  /\ pc' = [pc EXCEPT ![t] = step.pc]
           /\ log' = [log EXCEPT ![t] = @ \o step.log]
           /\ result' = [result EXCEPT ![t] = step.result]
    /\ sends' = [sends EXCEPT ![t] = Settle(@, outcome)]
    /\ UNCHANGED <<command, message, fetches, upstream, resp>>

\* bot.send_message returns at line 185.
NotFoundSendCompleted(t, outcome) ==
    /\ pc[t] = "send_not_found"
    /\ LET step == AfterNotFoundSend(outcome)
       IN  /\ pc' = [pc EXCEPT ![t] = step.pc]
           /\ log' = [log EXCEPT ![t] = @ \o step.log]
           /\ result' = [result EXCEPT ![t] = step.result]
    /\ sends' = [sends EXCEPT ![t] = Settle(@, outcome)]
    /\ UNCHANGED <<command, message, fetches, upstream, resp>>

(***************************************************************************)
(* Inputs.                                                                 *)
(***************************************************************************)
\* The texts of at most n characters over the set of characters A.
RECURSIVE TextsUpTo(_, _)
TextsUpTo(A, n) ==
    IF n = 0 THEN {<<>>}
    ELSE LET shorter == TextsUpTo(A, n - 1)
         IN  shorter \cup {Append(s, c) : s \in {x \in shorter : Len(x) = n - 1}, c \in A}

BlueHeeler == <<"B","l","u","e"," ","H","e","e","l","e","r">>
BorderCollie == <<" ","B","o","r","d","e","r","\t"," ","C","o","l","l","i","e","\n">>
Husky == <<"H","u","s","k","y">>

\* Words separated by a carriage return, a form feed and a vertical tab.
PugCrLf == <<"P","u","g","\r","M","i","x","\f","U+000B","x">>

BreedArgs ==
    TextsUpTo({"B", "h", " "}, MaxLen) \cup {BlueHeeler, BorderCollie, Husky, PugCrLf}

Commands == {Doggo, Breeds, Euro} \cup {Breed(a) : a \in BreedArgs}

\* A private chat (the chat id is the user's id), a group, and a message
\* without sender.
Messages == {Msg(7, Some(7)), Msg(-5, Some(7)), Msg(-9, None)}

UrlXY == <<"h","t","t","p",":","/","/","x","/","y",".","j","p","g">>
UrlUpperX == <<"H","T","T","P",":","/","/","X">>
NotAUrl == <<"n","o","t"," ","a"," ","u","r","l">>

\* A URL between spaces, a host that is an IPv4 number, and a file path that
\* starts with an empty segment.
UrlFileDot == <<"f","i","l","e",":",".","/","/","x">>
UrlPadded == <<" ","h","t","t","p",":","/","/","x","/","y"," ">>
UrlShortIpv4 == <<"h","t","t","p",":","/","/","1",".","2","/","y">>

DogPayloads == {UrlXY, UrlUpperX, NotAUrl}
DogOutcomes ==
    {Err, Ok(DogResponse(UrlXY, "Success"))}
    \cup {Ok(DogResponse(p, "success")) : p \in {UrlPadded, UrlShortIpv4, UrlFileDot}}
    \cup {Ok(DogResponse(p, st)) : p \in DogPayloads, st \in {"success", "error"}}

TwoBreeds == [hound |-> <<"afghan", "basset">>, husky |-> <<>>]
BreedsOutcomes ==
    {Err} \cup {Ok(DogResponse(b, st)) : b \in {EmptyMap, TwoBreeds}, st \in {"success", "error"}}

\* 1, 1.07, 1.5, -1.07, 1000000.01 (which f32 cannot hold) and -0.00.
Prices ==
    {F32(FALSE, 100), F32(FALSE, 107), F32(FALSE, 150), F32(TRUE, 107),
     F32(FALSE, 100000001), F32(TRUE, 0)}

PriceMaps ==
    {EmptyMap, [bitcoin |-> GoingeckoCoinValue(F32(FALSE, 6500000))]}
    \cup {("tether-eurt" :> GoingeckoCoinValue(v)) : v \in Prices}
    \cup {("tether-eurt" :> GoingeckoCoinValue(F32(FALSE, 107))) @@ [bitcoin |-> GoingeckoCoinValue(F32(FALSE, 6500000))]}
EuroOutcomes == {Err} \cup {Ok(m) : m \in PriceMaps}

SendOutcomes == {"ok", "err"}

\* The inputs of the interleaved invocations.
TwoCommands == {Doggo, Breeds, Euro, Breed(BlueHeeler)}
TwoMessages == {Msg(7, Some(7)), Msg(-5, Some(8))}
TwoDogOutcomes ==
    {Ok(DogResponse(UrlXY, "success")), Ok(DogResponse(NotAUrl, "success")),
     Ok(DogResponse(NotAUrl, "error"))}
TwoBreedsOutcomes ==
    {Ok(DogResponse(TwoBreeds, "success")), Ok(DogResponse(EmptyMap, "error"))}
TwoEuroOutcomes ==
    {Ok(EmptyMap), Ok("tether-eurt" :> GoingeckoCoinValue(F32(FALSE, 107)))}

(***************************************************************************)
(* Spec: one invocation of `answer`, over all inputs.                      *)
(***************************************************************************)
Next ==
    \/ \E c \in Commands, m \in Messages : Receive(1, c, m)
    \/ \E http \in BreedsOutcomes : BreedsFetched(1, http)
    \/ \E http \in DogOutcomes : DoggoFetched(1, http)
    \/ \E http \in EuroOutcomes : EuroFetched(1, http)
    \/ \E http \in DogOutcomes : BreedFetched(1, http)
    \/ \E o \in SendOutcomes : SendCompleted(1, o)
    \/ \E o \in SendOutcomes : NotFoundSendCompleted(1, o)

Spec == Init /\ [][Next]_vars

(***************************************************************************)
(* SpecConcurrent: the invocations of Tasks, interleaved at their awaits.  *)
(***************************************************************************)
NextConcurrent ==
    \E t \in Tasks :
        \/ \E c \in TwoCommands, m \in TwoMessages : Receive(t, c, m)
        \/ \E http \in TwoBreedsOutcomes : BreedsFetched(t, http)
        \/ \E http \in TwoDogOutcomes : DoggoFetched(t, http)
        \/ \E http \in TwoEuroOutcomes : EuroFetched(t, http)
        \/ \E http \in TwoDogOutcomes : BreedFetched(t, http)
        \/ \E o \in SendOutcomes : SendCompleted(t, o)
        \/ \E o \in SendOutcomes : NotFoundSendCompleted(t, o)

SpecConcurrent == Init /\ [][NextConcurrent]_vars

(***************************************************************************)
(* Properties.                                                             *)
(***************************************************************************)
Done(t) == pc[t] = "done"
Logged(t, event) == \E i \in DOMAIN log[t] : log[t][i] = event
ErrorLogged(t) == \E i \in DOMAIN log[t] : log[t][i].level = "ERROR"
Fetched(t) == upstream[t] # NoResp
\* The upstream answered with a well-formed response whose status is not
\* "success".
NonSuccess(t) ==
    /\ command[t].name \in {"Doggo", "Breed", "Breeds"}
    /\ IsOk(upstream[t])
    /\ upstream[t].body.status # "success"
\* The reply of the breed arm, spelled out.
DoesntExist(arg) == <<"Breed '">> \o arg \o <<"' doesn't exist">>
TetherEurt == "tether-eurt"

\* C1: for every command and every outcome of the fetch and of the send,
\* `answer` runs to completion and returns Ok: no invocation ends in a panic.
C1_AnswerAlwaysReturnsOk ==
    \A t \in Tasks : Done(t) => result[t] = "Ok"

\* C2: for doggo, breed and breeds, a response whose status is not "success"
\* is handled on the failure path only: the failure is logged, the handler
\* does not panic, and nothing built from the response's payload is sent (the
\* only send is the breed arm's reply, built from the command argument).
C2_NonSuccessNeverSendsPayload ==
    \A t \in Tasks :
        NonSuccess(t) =>
            /\ ErrorLogged(t)
            /\ result[t] # "panic"
            /\ \A i \in DOMAIN sends[t] :
                  /\ command[t].name = "Breed"
                  /\ sends[t][i].kind = "text"
                  /\ sends[t][i].body = DoesntExist(command[t].arg)

\* A doggo invocation has finished on a response that carries a well-formed
\* image URL and a status other than "success".
C2_Witness ==
    \E t \in Tasks :
        /\ Done(t)
        /\ command[t] = Doggo
        /\ upstream[t] = Ok(DogResponse(UrlXY, "error"))
        /\ sends[t] = <<>>

\* Two payloads name the same URL when they parse to the same URL.
SameUrl(a, b) == IsSome(Url_from_str(a)) /\ Url_from_str(a) = Url_from_str(b)

\* C3: for doggo, when the fetch returns status "success" and message U, the
\* handler performs exactly one photo send, whose URL is U (compared as URLs),
\* and no text send.
C3_DoggoSuccessSendsOnePhoto ==
    \A t \in Tasks :
        ( /\ Done(t)
          /\ command[t] = Doggo
          /\ IsOk(upstream[t])
          /\ upstream[t].body.status = "success" )
        => /\ Len(sends[t]) = 1
           /\ sends[t][1].kind = "photo"
           /\ SameUrl(sends[t][1].body, upstream[t].body.message)

\* C4: for euro, when the price map is fetched but has no key "tether-eurt",
\* the handler sends no message, logs a failure and completes normally.
C4_EuroMissingKeyLogsFailure ==
    \A t \in Tasks :
        ( /\ Done(t)
          /\ command[t] = Euro
          /\ IsOk(upstream[t])
          /\ TetherEurt \notin DOMAIN upstream[t].body )
        => /\ sends[t] = <<>>
           /\ result[t] = "Ok"
           /\ ErrorLogged(t)

\* The words of s: the maximal runs <<first, last>> of non-whitespace
\* characters.
WordSpans(s) ==
    {w \in (1..Len(s)) \X (1..Len(s)) :
        /\ w[1] <= w[2]
        /\ \A k \in w[1]..w[2] : ~IsWhitespace(s[k])
        /\ w[1] = 1 \/ IsWhitespace(s[w[1] - 1])
        /\ w[2] = Len(s) \/ IsWhitespace(s[w[2] + 1])}

\* The characters taken by the words W, each followed by one separator.
RECURSIVE Taken(_)
Taken(W) ==
    IF W = {} THEN 0
    ELSE LET w == CHOOSE v \in W : TRUE
         IN  (w[2] - w[1] + 2) + Taken(W \ {w})

\* out is the words of s, lowercased, last word first, joined by "/".
IsReversedPath(s, out) ==
    LET W == WordSpans(s)
        Before(w) == Taken({v \in W : v[1] > w[1]})
    IN  /\ Len(out) = (IF W = {} THEN 0 ELSE Taken(W) - 1)
        /\ \A i \in DOMAIN out : out[i] \notin Range(UpperCase) /\ ~IsWhitespace(out[i])
        /\ \A w \in W :
              /\ \A k \in 0..(w[2] - w[1]) :
                    out[Before(w) + 1 + k] = ToLowerChar(s[w[1] + k])
              /\ (\E v \in W : v[1] < w[1]) =>
                    out[Before(w) + (w[2] - w[1]) + 2] = "/"

\* C5: the breed command requests exactly breed/<normalized>/images/random,
\* where <normalized> is the whitespace-separated words of the unmodified
\* argument, lowercased, in reversed order, joined by "/" (a single word
\* yields that word lowercased).
C5_BreedRequestsReversedPath ==
    \A t \in Tasks :
        (command[t].name = "Breed" /\ pc[t] # "idle") =>
            /\ Len(fetches[t]) = 1
            /\ LET url  == fetches[t][1]
                   path == SubSeq(url, 2, Len(url) - 1)
               IN  /\ url = BreedUrlPrefix \o path \o BreedUrlSuffix
                   /\ IsReversedPath(command[t].arg, path)

\* The breed command has requested heeler/blue for "Blue Heeler".
C5_Witness ==
    \E t \in Tasks :
        /\ command[t] = Breed(BlueHeeler)
        /\ fetches[t] = << <<"https://dog.ceo/api/breed/",
                              "h","e","e","l","e","r","/","b","l","u","e",
                              "/images/random">> >>

\* C6: given a successfully parsed price map, get_euro_usd returns Ok(None)
\* when the key "tether-eurt" is missing and Ok(Some(v)), v the usd value
\* stored under the key, when it is present; it never returns Err.
C6_PriceExtraction ==
    \A t \in Tasks :
        (command[t] = Euro /\ IsOk(upstream[t])) =>
            /\ ~IsErr(resp[t])
            /\ TetherEurt \notin DOMAIN upstream[t].body => resp[t] = Ok(None)
            /\ TetherEurt \in DOMAIN upstream[t].body =>
                  resp[t] = Ok(Some(upstream[t].body[TetherEurt].usd))

\* The price map held another key only, and the extraction returned Ok(None).
C6_Witness ==
    \E t \in Tasks :
        /\ command[t] = Euro
        /\ IsOk(upstream[t])
        /\ DOMAIN upstream[t].body = {"bitcoin"}
        /\ resp[t] = Ok(None)

\* C7: every message the handler sends is addressed to the chat in which the
\* command was received.
C7_SendsGoToOriginatingChat ==
    \A t \in Tasks :
        \A i \in DOMAIN sends[t] : sends[t][i].to = message[t].chat

\* C8 as stated: for the breed command with argument N, whenever the fetch
\* returns a non-success status or a fetch error, the handler logs the failure
\* and sends the text "Breed 'N' doesn't exist" with the original N.
C8_NotFoundSentOnEveryFailure ==
    \A t \in Tasks :
        ( /\ Done(t)
          /\ command[t].name = "Breed"
          /\ (IsErr(upstream[t]) \/ NonSuccess(t)) )
        => /\ ErrorLogged(t)
           /\ \E i \in DOMAIN sends[t] :
                 /\ sends[t][i].kind = "text"
                 /\ sends[t][i].body = DoesntExist(command[t].arg)

\* C8 amended: for the breed command with argument N, a response with a
\* non-success status makes the handler log the failure and send exactly one
\* message, the text "Breed 'N' doesn't exist" with the original N, to the
\* chat of the command; a fetch error makes it log the failure and send
\* nothing.
C8_NotFoundSentOnNonSuccessOnly ==
    \A t \in Tasks :
        (command[t].name = "Breed" /\ Fetched(t)) =>
            /\ NonSuccess(t) =>
                  /\ Logged(t, NoDogEvent)
                  /\ Len(sends[t]) = 1
                  /\ sends[t][1].kind = "text"
                  /\ sends[t][1].to = message[t].chat
                  /\ sends[t][1].body = DoesntExist(command[t].arg)
            /\ IsErr(upstream[t]) =>
                  /\ Logged(t, NoDogEvent)
                  /\ sends[t] = <<>>
                  /\ result[t] = "Ok"

\* The breed command for "Blue Heeler" has finished on a non-success response
\* and its reply quotes "Blue Heeler".
C8_Witness ==
    \E t \in Tasks :
        /\ Done(t)
        /\ command[t] = Breed(BlueHeeler)
        /\ NonSuccess(t)
        /\ Len(sends[t]) = 1
        /\ sends[t][1].body = <<"Breed '", "B","l","u","e"," ","H","e","e","l","e","r",
                                "' doesn't exist">>

\* C9: every invocation makes exactly one fetch attempt and at most one send
\* attempt, the send after the fetch result; when the send fails the error is
\* logged, nothing is attempted again and the handler returns Ok.
C9_NoRetryAndSendFailureLogged ==
    \A t \in Tasks :
        /\ pc[t] # "idle" => Len(fetches[t]) = 1
        /\ Len(sends[t]) <= 1
        /\ sends[t] # <<>> => Fetched(t)
        /\ (Done(t) /\ sends[t] # <<>> /\ sends[t][1].outcome = "err") =>
              /\ Logged(t, SendFailedEvent)
              /\ result[t] = "Ok"

\* What an invocation with command c, message m and fetch outcome http sends
\* when it runs alone (one list per order in which the catalog may iterate).
AloneSends(c, m, http) ==
    LET to(chat, kind, body) == <<[kind |-> kind, to |-> chat, body |-> body]>>
    IN  CASE c.name \in {"Doggo", "Breed"} ->
               IF IsOk(http) /\ http.body.status = "success"
               THEN LET url == Url_from_str(http.body.message)
                    IN  IF IsSome(url) THEN {to(m.chat, "photo", Unwrap(url))}
                                       ELSE {<<>>}
               ELSE IF IsOk(http) /\ c.name = "Breed"
                    THEN {to(m.chat, "text", DoesntExist(c.arg))}
                    ELSE {<<>>}
          [] c.name = "Breeds" ->
               IF IsOk(http) /\ http.body.status = "success" /\ IsSome(m.from)
               THEN {to(Unwrap(m.from), "text", BreedsText(http.body.message, keys)) :
                        keys \in IterationOrders(DOMAIN http.body.message)}
               ELSE {<<>>}
          [] OTHER ->
               IF IsOk(http) /\ TetherEurt \in DOMAIN http.body
               THEN {to(m.chat, "text", EuroText(http.body[TetherEurt].usd))}
               ELSE {<<>>}

\* How that invocation ends.
AloneResult(c, m, http) ==
    IF IsOk(http) /\ c.name # "Euro" /\ http.body.status = "success"
    THEN IF c.name = "Breeds"
         THEN (IF IsSome(m.from) THEN "Ok" ELSE "panic")
         ELSE (IF IsSome(Url_from_str(http.body.message)) THEN "Ok" ELSE "panic")
    ELSE "Ok"

Unsettled(ss) == [i \in DOMAIN ss |-> [kind |-> ss[i].kind, to |-> ss[i].to, body |-> ss[i].body]]

\* C10: under every interleaving, what an invocation sends and how it ends
\* depend only on its own command, message and fetch outcome, and are what it
\* sends and how it ends when it runs alone; an invocation that has not been
\* called has sent, logged and fetched nothing.
C10_InterleavedAsAlone ==
    \A t \in Tasks :
        /\ Done(t) =>
              /\ Unsettled(sends[t]) \in AloneSends(command[t], message[t], upstream[t])
              /\ result[t] = AloneResult(command[t], message[t], upstream[t])
        /\ pc[t] = "idle" =>
              /\ sends[t] = <<>> /\ log[t] = <<>> /\ fetches[t] = <<>>
              /\ result[t] = "pending"

\* Two invocations received in different chats have both finished after a
\* send each.
C10_Witness ==
    \E t, u \in Tasks :
        /\ t < u
        /\ Done(t) /\ Done(u)
        /\ message[t].chat # message[u].chat
        /\ command[t] # command[u]
        /\ sends[t] # <<>> /\ sends[u] # <<>>

=============================================================================
